---- MODULE Spec2Model ----
(***************************************************************************)
(* A model of eplot's coordinate-transform and interaction engine          *)
(* (eplot/plot.rs): AxisRange and its transform math, PlotMemory, the      *)
(* PlotCtx registry, the Plot builder and the per-frame state transition   *)
(* of Plot::show.                                                          *)
(*                                                                         *)
(* Numbers.  The program computes in f32.  The model computes in exact     *)
(* rational arithmetic: a number is a record [n |-> numerator,             *)
(* d |-> denominator] in lowest terms with d > 0, so equal numbers are     *)
(* equal records.  Rounding of f32 results is therefore outside the model; *)
(* every formula below is a statement about the arithmetic the code        *)
(* writes down, evaluated exactly.                                         *)
(***************************************************************************)
EXTENDS Integers, Sequences, FiniteSets, TLC

VARIABLES
    axis,      \* the AxisRange a pure AxisRange method is applied to
    call,      \* the last AxisRange method call: arguments, receiver before, return value
    nops,      \* number of AxisRange method calls made so far
    memory,    \* PlotCtx.memory: label -> PlotMemory, or NoEntry
    plt,       \* the Plot builder between PlotCtx::plot and Plot::show, or NoPlot
    frame,     \* what the last Plot::show did, step by step, or NoFrame
    nframes,   \* label -> number of Plot::show calls made for it so far
    nscrolls,  \* number of those frames that had a non-zero scroll delta
    item,      \* the plot item under construction, or NoItem
    itemcall,  \* the last call on a plot item: method and argument
    painted,   \* what the last PlotItem::paint did: the painter calls it issued
    aborted,   \* a panic has ended the program
    nitems     \* number of plot items constructed so far

vars == <<axis, call, nops, memory, plt, frame, nframes, nscrolls,
          item, itemcall, painted, aborted, nitems>>
axisVars == <<axis, call, nops>>
plotVars == <<memory, plt, frame, nframes, nscrolls>>
itemVars == <<item, itemcall, painted, aborted, nitems>>

(***************************************************************************)
(* f32 arithmetic, exact                                                   *)
(***************************************************************************)
Abs(i) == IF i < 0 THEN -i ELSE i

RECURSIVE GCD(_, _)
GCD(a, b) == IF b = 0 THEN a ELSE GCD(b, a % b)

\* n/d in lowest terms, for d > 0
Norm(n, d) == LET g == GCD(Abs(n), d) IN [n |-> n \div g, d |-> d \div g]

\* n/d for d # 0
Rat(n, d) == IF d < 0 THEN Norm(-n, -d) ELSE Norm(n, d)

\* the f32 literal i.
R(i) == [n |-> i, d |-> 1]

RNeg(a) == [n |-> -a.n, d |-> a.d]

RAdd(a, b) ==
    LET g == GCD(a.d, b.d)
    IN  Norm(a.n * (b.d \div g) + b.n * (a.d \div g), (a.d \div g) * b.d)

RSub(a, b) == RAdd(a, RNeg(b))

RMul(a, b) ==
    LET g1 == GCD(Abs(a.n), b.d)
        g2 == GCD(Abs(b.n), a.d)
    IN  Norm((a.n \div g1) * (b.n \div g2), (a.d \div g2) * (b.d \div g1))

\* a / b for b # 0 (the code divides by extents and widths that are not zero
\* in any state of this model)
RDiv(a, b) == RMul(a, Rat(b.d, b.n))

\* an/ad < bn/bd for 0 <= an < ad and 0 <= bn < bd, by comparing the
\* reciprocals' integer parts, so that no product is formed.
RECURSIVE FracLt(_, _, _, _)
FracLt(an, ad, bn, bd) ==
    IF bn = 0 THEN FALSE
    ELSE IF an = 0 THEN TRUE
    ELSE IF bd \div bn # ad \div an THEN bd \div bn < ad \div an
    ELSE FracLt(bd % bn, bn, ad % an, an)

RLt(a, b) ==
    IF a.n \div a.d # b.n \div b.d THEN a.n \div a.d < b.n \div b.d
    ELSE FracLt(a.n % a.d, a.d, b.n % b.d, b.d)
RLe(a, b) == ~RLt(b, a)
RMax(a, b) == IF RLt(a, b) THEN b ELSE a
RMin(a, b) == IF RLt(b, a) THEN b ELSE a

RECURSIVE RPow(_, _)
RPow(a, k) == IF k = 0 THEN R(1) ELSE RMul(a, RPow(a, k - 1))

\* f32::clamp(lo, hi)
RClamp(a, lo, hi) == IF RLt(a, lo) THEN lo ELSE IF RLt(hi, a) THEN hi ELSE a

\* Largest exponent k for which the logarithm table below has an entry b^k.
MaxLogExp == 2

\* f32::log(base) on the arguments base^k, k \in 0..MaxLogExp; the model
\* evaluates logarithms on these arguments only.
HasLog(x, base) == \E k \in 0..MaxLogExp : x = RPow(base, k)
Log(x, base) == R(CHOOSE k \in 0..MaxLogExp : x = RPow(base, k))
Log10(x) == Log(x, R(10))

(***************************************************************************)
(* RangeInclusive<f32>, emath::lerp, emath::remap                          *)
(***************************************************************************)
Rng(a, b) == [lo |-> a, hi |-> b]

\* emath::lerp(range, t) = (1 - t) * range.start + t * range.end
lerp(range, t) == RAdd(RMul(RSub(R(1), t), range.lo), RMul(t, range.hi))

\* emath::remap(x, from, to) = lerp(to, (x - from.start) / (from.end - from.start))
remap(x, from, to) == lerp(to, RDiv(RSub(x, from.lo), RSub(from.hi, from.lo)))

(***************************************************************************)
(* AxisRange                                                               *)
(***************************************************************************)
\* A constructor that yields Logarithmic scaling.
AxisRange_new_logarithmic(range) ==
    [start |-> range.lo, end |-> range.hi, scaling |-> "Logarithmic"]

AxisRange_new(range) == [start |-> range.lo, end |-> range.hi, scaling |-> "Linear"]

extent(self) == RSub(self.end, self.start)

middle(self) == RDiv(RAdd(self.start, self.end), R(2))

\* translate that moves the start only.
translate_start_only(self, delta) ==
    [self EXCEPT !.start = RAdd(self.start, delta)]

\* self.start += delta; self.end += delta
translate(self, delta) ==
    [self EXCEPT !.start = RAdd(self.start, delta), !.end = RAdd(self.end, delta)]

\* zoom with the signs of both statements exchanged.
zoom_inverted(self, amount, center) ==
    LET s1 == [self EXCEPT !.start =
                  RAdd(self.start, RMul(RMul(amount, center), extent(self)))]
    IN  [s1 EXCEPT !.end =
            RSub(s1.end, RMul(RMul(amount, RSub(R(1), center)), extent(s1)))]

\* self.start -= amount * center * self.extent();
\* self.end += amount * (1. - center) * self.extent();
\* The second statement calls extent() on the range whose start the first
\* statement has already moved.
zoom(self, amount, center) ==
    LET s1 == [self EXCEPT !.start =
                  RSub(self.start, RMul(RMul(amount, center), extent(self)))]
    IN  [s1 EXCEPT !.end =
            RAdd(s1.end, RMul(RMul(amount, RSub(R(1), center)), extent(s1)))]

pixel_to_axis(self, pixel_range, pixel, flip) ==
    LET pixel_tf == IF flip
                    THEN remap(pixel, pixel_range, Rng(self.end, self.start))
                    ELSE remap(pixel, pixel_range, Rng(self.start, self.end))
    IN  IF self.scaling = "Linear"
        THEN pixel_tf
        ELSE LET den == Log10(RDiv(self.end, self.start))
                 t == RDiv(RSub(pixel_tf, self.start), extent(self))
             IN  RMul(RPow(RMul(t, den), 10), self.start)

\* axis_to_pixel that maps from the reversed range whatever flip is.
axis_to_pixel_always_flip(self, pixel_range, axis_pos, flip) ==
    remap(axis_pos, Rng(self.end, self.start), pixel_range)

\* axis_to_pixel that ignores flip.
axis_to_pixel_no_flip(self, pixel_range, axis_pos, flip) ==
    remap(axis_pos, Rng(self.start, self.end), pixel_range)

\* The Logarithmic arm is defined where HasLog(axis_pos / start, end / start).
axis_to_pixel(self, pixel_range, axis_pos, flip) ==
    IF self.scaling = "Linear"
    THEN IF flip
         THEN remap(axis_pos, Rng(self.end, self.start), pixel_range)
         ELSE remap(axis_pos, Rng(self.start, self.end), pixel_range)
    ELSE LET t == Log(RDiv(axis_pos, self.start), RDiv(self.end, self.start))
         IN  IF flip
             THEN lerp(Rng(self.end, self.start), t)
             ELSE lerp(Rng(self.start, self.end), t)

(***************************************************************************)
(* The AxisRange methods as operations on one AxisRange value              *)
(***************************************************************************)
\* Number of AxisRange method calls in one behaviour.
MaxOps == 1

Lin(a, b) == AxisRange_new(Rng(a, b))
Logarithmic(a, b) == [start |-> a, end |-> b, scaling |-> "Logarithmic"]

\* The ranges the methods are applied to: end > start, and start > 0 with
\* end / start a power of ten under Logarithmic scaling.
AxisRanges ==
    { Lin(R(-10), R(10)), Lin(R(0), R(5)), Lin(R(-1), R(1)), Lin(R(2), Rat(5, 2)),
      Logarithmic(R(1), R(10)), Logarithmic(R(1), R(100)), Logarithmic(R(2), R(20)) }

Amounts == { Rat(-1, 10), Rat(1, 10), Rat(1, 2), Rat(-9, 10), R(0) }
Centers == { R(0), Rat(1, 2), R(1) }
Deltas == { R(-2), R(2), Rat(1, 2), R(0) }
PixelRanges == { Rng(R(0), R(800)), Rng(R(40), R(240)), Rng(R(10), R(210)) }

\* Pixels of a pixel range: its bounds, its midpoint and its first quarter.
PixelsOf(pr) ==
    { lerp(pr, t) : t \in { R(0), Rat(1, 4), Rat(1, 2), R(1) } }

\* Axis positions of a range: its bounds, its middle, zero and two.
AxisPositionsOf(r) == { r.start, r.end, middle(r), R(0), R(2) }

NoRange == Rng(R(0), R(0))

\* The Logarithmic arms are evaluated on ranges with 0 < start < end and
\* end / start a power of ten in the logarithm table.
LogDefined(self) ==
    /\ self.start.n > 0
    /\ RLt(self.start, self.end)
    /\ HasLog(RDiv(self.end, self.start), R(10))

NoCall ==
    [op |-> "none", pre |-> Lin(R(0), R(0)), amount |-> R(0), center |-> R(0),
     delta |-> R(0), pixel_range |-> NoRange, arg |-> R(0), flip |-> FALSE,
     ret |-> R(0)]

\* One more AxisRange method call; the plot state is not involved.
AxisStep ==
    /\ nops < MaxOps
    /\ nops' = nops + 1
    /\ UNCHANGED <<plotVars, itemVars>>

Translate(delta) ==
    /\ AxisStep
    /\ axis' = translate(axis, delta)
    /\ call' = [NoCall EXCEPT !.op = "translate", !.pre = axis, !.delta = delta]

Zoom(amount, center) ==
    /\ AxisStep
    /\ axis' = zoom(axis, amount, center)
    /\ call' = [NoCall EXCEPT !.op = "zoom", !.pre = axis, !.amount = amount,
                              !.center = center]

PixelToAxis(pixel_range, pixel, flip) ==
    /\ AxisStep
    /\ axis.scaling = "Logarithmic" => LogDefined(axis)
    /\ axis' = axis
    /\ call' = [NoCall EXCEPT !.op = "pixel_to_axis", !.pre = axis,
                              !.pixel_range = pixel_range, !.arg = pixel,
                              !.flip = flip,
                              !.ret = pixel_to_axis(axis, pixel_range, pixel, flip)]

AxisToPixel(pixel_range, axis_pos, flip) ==
    /\ AxisStep
    /\ axis.scaling = "Logarithmic" =>
           /\ LogDefined(axis)
           /\ HasLog(RDiv(axis_pos, axis.start), RDiv(axis.end, axis.start))
    /\ axis' = axis
    /\ call' = [NoCall EXCEPT !.op = "axis_to_pixel", !.pre = axis,
                              !.pixel_range = pixel_range, !.arg = axis_pos,
                              !.flip = flip,
                              !.ret = axis_to_pixel(axis, pixel_range, axis_pos, flip)]

(***************************************************************************)
(* Pos2, Option<Pos2>, Rect                                                *)
(***************************************************************************)
Pos(x, y) == [x |-> x, y |-> y]
pos2(i, j) == Pos(R(i), R(j))

None == [some |-> FALSE, pos |-> pos2(0, 0)]
Some(p) == [some |-> TRUE, pos |-> p]

Rect_from_min_max(min, max) == [min |-> min, max |-> max]
width(rect) == RSub(rect.max.x, rect.min.x)
height(rect) == RSub(rect.max.y, rect.min.y)
x_range(rect) == Rng(rect.min.x, rect.max.x)
y_range(rect) == Rng(rect.min.y, rect.max.y)

\* Rect::contains: both bounds inclusive
contains(rect, p) ==
    /\ RLe(rect.min.x, p.x) /\ RLe(p.x, rect.max.x)
    /\ RLe(rect.min.y, p.y) /\ RLe(p.y, rect.max.y)

\* Option::filter(|pos| rect.contains(*pos))
filter_contains(opt, rect) == IF opt.some /\ contains(rect, opt.pos) THEN opt ELSE None

(***************************************************************************)
(* PlotMemory, PlotCtx, the Plot builder                                   *)
(***************************************************************************)
NoEntry ==
    [present |-> FALSE, last_drag_pos |-> None,
     x_axis_range |-> Lin(R(0), R(0)), y_axis_range |-> Lin(R(0), R(0))]

\* AxisRange::default(): start and end are both -10.
AxisRange_default == [start |-> R(-10), end |-> R(-10), scaling |-> "Linear"]

\* A PlotMemory::default() built from AxisRange::default().
PlotMemory_from_AxisRange_default ==
    [present |-> TRUE, last_drag_pos |-> None,
     x_axis_range |-> AxisRange_default, y_axis_range |-> AxisRange_default]

\* PlotMemory::default()
PlotMemory_default ==
    [present |-> TRUE, last_drag_pos |-> None,
     x_axis_range |-> AxisRange_new(Rng(R(-10), R(10))),
     y_axis_range |-> AxisRange_new(Rng(R(-10), R(10)))]

\* Axis::default()
Axis_default == [label |-> "", range |-> AxisRange_new(Rng(R(-10), R(10)))]

NoPlot ==
    [present |-> FALSE, label |-> "", title |-> FALSE, show_cursor_pos |-> TRUE,
     x_axis |-> Axis_default, y_axis |-> Axis_default]

\* Plot::new_with_memory; the builder's memory reference is the entry of its label
new_with_memory(label) == [NoPlot EXCEPT !.present = TRUE, !.label = label]

\* HashMap::entry(id).or_default()
entry_or_default(mem, label) ==
    IF mem[label].present THEN mem ELSE [mem EXCEPT ![label] = PlotMemory_default]

(***************************************************************************)
(* Plot::show, step by step                                                *)
(***************************************************************************)
\* The rectangle that contains the plot items.
layout(full_rect, title, x_label) ==
    LET left_margin == R(40)
        right_margin == R(10)
        bottom_margin == IF x_label # "" THEN R(50) ELSE R(40)
        top_margin == IF title THEN R(20) ELSE R(10)
    IN  Rect_from_min_max(
            Pos(RAdd(full_rect.min.x, left_margin), RAdd(full_rect.min.y, top_margin)),
            Pos(RSub(full_rect.max.x, right_margin), RSub(full_rect.max.y, bottom_margin)))

\* A frame that starts from the builder's ranges.
start_ranges_of_builder(p, mem) == [x |-> p.x_axis.range, y |-> p.y_axis.range]

\* x_axis.range = *x_axis_range; y_axis.range = *y_axis_range: the ranges the
\* frame starts from are those of the PlotMemory, not those of the builder.
start_ranges(p, mem) == [x |-> mem.x_axis_range, y |-> mem.y_axis_range]

\* Adjust the axes so that the aspect ratio is equal.
\* The aspect lock with the two bounds of the adjusted axis exchanged.
aspect_lock_mirrored(x, y, painter_rect) ==
    LET painter_height == height(painter_rect)
        painter_width == width(painter_rect)
        max_half_extent == RDiv(RMax(extent(x), extent(y)), R(2))
        painter_ratio == RDiv(painter_height, painter_width)
    IN  IF RLt(R(1), painter_ratio)
        THEN [x |-> [x EXCEPT
                       !.start = RAdd(middle(x), RDiv(max_half_extent, painter_ratio)),
                       !.end = RSub(middle(x), RDiv(max_half_extent, painter_ratio))],
              y |-> y]
        ELSE [x |-> x,
              y |-> [y EXCEPT
                       !.start = RAdd(middle(y), RMul(max_half_extent, painter_ratio)),
                       !.end = RSub(middle(y), RMul(max_half_extent, painter_ratio))]]

\* Adjust the axes so that the aspect ratio is equal.
aspect_lock(x, y, painter_rect) ==
    LET painter_height == height(painter_rect)
        painter_width == width(painter_rect)
        plot_width == extent(x)
        plot_height == extent(y)
        max_half_extent == RDiv(RMax(plot_width, plot_height), R(2))
        painter_ratio == RDiv(painter_height, painter_width)
    IN  IF RLt(R(1), painter_ratio)
        THEN LET x_center == middle(x)
             IN  [x |-> [x EXCEPT
                           !.start = RSub(x_center, RDiv(max_half_extent, painter_ratio)),
                           !.end = RAdd(x_center, RDiv(max_half_extent, painter_ratio))],
                  y |-> y]
        ELSE LET y_center == middle(y)
             IN  [x |-> x,
                  y |-> [y EXCEPT
                           !.start = RSub(y_center, RMul(max_half_extent, painter_ratio)),
                           !.end = RAdd(y_center, RMul(max_half_extent, painter_ratio))]]

\* Plot::pixels_to_plot
pixels_to_plot(pixel_pos, x, y, plot_rect) ==
    Pos(pixel_to_axis(x, x_range(plot_rect), pixel_pos.x, FALSE),
        pixel_to_axis(y, y_range(plot_rect), pixel_pos.y, TRUE))

\* Plot::plot_to_pixels
plot_to_pixels(plot_pos, x, y, plot_rect) ==
    Pos(axis_to_pixel(x, x_range(plot_rect), plot_pos.x, FALSE),
        axis_to_pixel(y, y_range(plot_rect), plot_pos.y, TRUE))

\* The drag delta with its sign reversed.
drag_delta_reversed(pos_tf, last_pos_tf) ==
    Pos(RSub(pos_tf.x, last_pos_tf.x), RSub(pos_tf.y, last_pos_tf.y))

\* let delta = last_pos_tf - pos_tf
drag_delta(pos_tf, last_pos_tf) ==
    Pos(RSub(last_pos_tf.x, pos_tf.x), RSub(last_pos_tf.y, pos_tf.y))

\* Dragging that keeps the remembered drag position when no press is active.
dragging_without_clear(x, y, painter_rect, new_drag_pos, last_drag_pos) ==
    IF new_drag_pos.some
    THEN LET pos_tf == pixels_to_plot(new_drag_pos.pos, x, y, painter_rect)
         IN  IF last_drag_pos.some
             THEN LET last_pos_tf == pixels_to_plot(last_drag_pos.pos, x, y, painter_rect)
                      delta == drag_delta(pos_tf, last_pos_tf)
                  IN  [x |-> translate(x, delta.x), y |-> translate(y, delta.y),
                       last_drag_pos |-> new_drag_pos]
             ELSE [x |-> x, y |-> y, last_drag_pos |-> new_drag_pos]
    ELSE [x |-> x, y |-> y, last_drag_pos |-> last_drag_pos]

\* Dragging: the ranges and the remembered drag position after the step.
dragging(x, y, painter_rect, new_drag_pos, last_drag_pos) ==
    IF new_drag_pos.some
    THEN LET pos_tf == pixels_to_plot(new_drag_pos.pos, x, y, painter_rect)
         IN  IF last_drag_pos.some
             THEN LET last_pos_tf == pixels_to_plot(last_drag_pos.pos, x, y, painter_rect)
                      delta == drag_delta(pos_tf, last_pos_tf)
                  IN  [x |-> translate(x, delta.x), y |-> translate(y, delta.y),
                       last_drag_pos |-> new_drag_pos]
             ELSE [x |-> x, y |-> y, last_drag_pos |-> new_drag_pos]
    ELSE [x |-> x, y |-> y, last_drag_pos |-> None]

\* Zooming with the scroll delta as it comes, not clamped.
zooming_unclamped(x, y, painter_rect, interact_pos, scroll_delta_y) ==
    LET mouse == filter_contains(interact_pos, painter_rect)
    IN  IF mouse.some /\ scroll_delta_y # R(0)
        THEN LET left_distance ==
                     RDiv(RSub(mouse.pos.x, painter_rect.min.x), width(painter_rect))
                 bottom_distance ==
                     RDiv(RSub(painter_rect.max.y, mouse.pos.y), height(painter_rect))
                 zoom_factor == RMul(Rat(-1, 100), scroll_delta_y)
             IN  [x |-> zoom(x, zoom_factor, left_distance),
                  y |-> zoom(y, zoom_factor, bottom_distance)]
        ELSE [x |-> x, y |-> y]

\* Zooming
zooming(x, y, painter_rect, interact_pos, scroll_delta_y) ==
    LET scrolled == RClamp(scroll_delta_y, R(-10), R(10))
        mouse == filter_contains(interact_pos, painter_rect)
    IN  IF mouse.some /\ scrolled # R(0)
        THEN LET left_distance ==
                     RDiv(RSub(mouse.pos.x, painter_rect.min.x), width(painter_rect))
                 bottom_distance ==
                     RDiv(RSub(painter_rect.max.y, mouse.pos.y), height(painter_rect))
                 zoom_factor == RMul(Rat(-1, 100), scrolled)
             IN  [x |-> zoom(x, zoom_factor, left_distance),
                  y |-> zoom(y, zoom_factor, bottom_distance)]
        ELSE [x |-> x, y |-> y]

(***************************************************************************)
(* emath::smart_aim::best_in_range_f64, the simplest number in [min, max]   *)
(***************************************************************************)
\* Decimal exponents searched for the decade of a number.
MaxDecade == 3

Pow10(k) == IF k >= 0 THEN R(10 ^ k) ELSE Rat(1, 10 ^ (-k))

\* x.log10().floor() of a positive x
Decade(x) ==
    CHOOSE k \in -MaxDecade..MaxDecade :
        /\ IF k >= 0 THEN 10 ^ k * x.d <= x.n ELSE x.d <= 10 ^ (-k) * x.n
        /\ IF k + 1 >= 0 THEN x.n < 10 ^ (k + 1) * x.d ELSE 10 ^ (-k - 1) * x.n < x.d

\* fast_midpoint(min.log10(), max.log10()).round(): the integer nearest to
\* the logarithm of the geometric mean, halves rounded away from zero.
RoundedMidExponent(min, max, min_decade, max_decade) ==
    LET prod == RMul(min, max)
    IN  IF RLe(R(1), prod)
        THEN CHOOSE n \in min_decade..(max_decade + 1) :
                 LET scaled == RDiv(prod, Pow10(2 * n))
                 IN  RLe(Rat(1, 10), scaled) /\ RLt(scaled, R(10))
        ELSE CHOOSE n \in min_decade..(max_decade + 1) :
                 LET scaled == RDiv(prod, Pow10(2 * n))
                 IN  RLt(Rat(1, 10), scaled) /\ RLe(scaled, R(10))

\* r rounded towards negative infinity, as an integer
Floor(r) == r.n \div r.d

\* to_decimal_string(x)[i]: the i-th decimal digit of x in [1, 10), the
\* leading digit at i = 0.
Digit(x, i) == Floor(RMul(x, Pow10(i))) % 10

\* The number made of the first i decimal digits of x.
Prefix(x, i) == IF i = 0 THEN R(0)
                ELSE RDiv(R(Floor(RMul(x, Pow10(i - 1)))), Pow10(i - 1))

simplest_digit_closed_range(min, max) ==
    IF min <= 5 /\ 5 <= max THEN 5 ELSE (min + max) \div 2

\* The common prefix of the NUM_DECIMALS = 15 digits of min and max, followed
\* by the simplest digit between the first digits that differ.
RECURSIVE deciding_digit(_, _, _)
deciding_digit(min, max, i) ==
    IF i = 15 THEN max
    ELSE IF Digit(min, i) = Digit(max, i) THEN deciding_digit(min, max, i + 1)
    ELSE RAdd(Prefix(max, i),
              RDiv(R(simplest_digit_closed_range(Digit(min, i) + 1, Digit(max, i))),
                   Pow10(i)))

\* The branches of best_in_range_f64 for 0 < min < max, whose decades are
\* min.log10().floor() and max.log10().floor().
best_in_decades(min, max, min_decade, max_decade) ==
    IF min_decade # max_decade
    THEN Pow10(RoundedMidExponent(min, max, min_decade, max_decade))
    ELSE IF min = Pow10(min_decade) THEN min
    ELSE IF max = Pow10(max_decade) THEN max
    ELSE LET exp_factor == Pow10(max_decade)
         IN  RMul(deciding_digit(RDiv(min, exp_factor), RDiv(max, exp_factor), 0),
                  exp_factor)

RECURSIVE best_in_range_f64(_, _)
best_in_range_f64(min, max) ==
    IF RLt(max, min) THEN best_in_range_f64(max, min)
    ELSE IF min = max THEN min
    ELSE IF RLe(min, R(0)) /\ RLe(R(0), max) THEN R(0)
    ELSE IF RLt(min, R(0)) THEN RNeg(best_in_range_f64(RNeg(max), RNeg(min)))
    ELSE best_in_decades(min, max, Decade(min), Decade(max))

(***************************************************************************)
(* Ticks and tick labels                                                   *)
(***************************************************************************)
\* The increment taken from start - end, the extent with its sign reversed.
tick_increment_of_reversed_extent(x, y) ==
    LET smaller_axis_size == RMin(RSub(x.start, x.end), RSub(y.start, y.end))
        rough_increment == RDiv(smaller_axis_size, R(5))
    IN  best_in_range_f64(RMul(rough_increment, Rat(1, 2)),
                          RMul(rough_increment, Rat(3, 2)))

\* The increment taken from the larger of the two extents.
tick_increment_of_larger_axis(x, y) ==
    LET rough_increment == RDiv(RMax(extent(x), extent(y)), R(5))
    IN  best_in_range_f64(RMul(rough_increment, Rat(1, 2)),
                          RMul(rough_increment, Rat(3, 2)))

\* The tick increment: with ticks_on_smaller_axis = 5, the simplest number
\* within half and one and a half times a fifth of the smaller extent.
tick_increment(x, y) ==
    LET smaller_axis_size == RMin(extent(x), extent(y))
        rough_increment == RDiv(smaller_axis_size, R(5))
    IN  best_in_range_f64(RMul(rough_increment, Rat(1, 2)),
                          RMul(rough_increment, Rat(3, 2)))

\* (start / increment) as i32: rounded towards zero
as_i32(r) == IF r.n >= 0 THEN r.n \div r.d ELSE -((-r.n) \div r.d)

\* The largest and the smallest i32, the type of the tick counter i_start.
I32Max == 2147483647
I32Min == -I32Max - 1

\* (range.start / increment) as i32, a division by zero included: the cast
\* saturates at the infinities and takes NaN (0 / 0) to 0.
tick_quotient(range, increment) ==
    IF increment = R(0)
    THEN (IF RLt(R(0), range.start) THEN I32Max
          ELSE IF RLt(range.start, R(0)) THEN I32Min ELSE 0)
    ELSE as_i32(RDiv(range.start, increment))

\* let mut i_start = (range.start / increment) as i32;
\* if i_start >= 0 { i_start += 1; }
tick_i_start(range, increment) ==
    LET i_start == tick_quotient(range, increment)
    IN  IF i_start >= 0 /\ i_start < I32Max THEN i_start + 1 ELSE i_start

\* The loop of a tick walk reaches its break: at once when the first tick
\* position is beyond limit; otherwise only with a positive increment, and
\* with the counter of the first position beyond limit within i32.  Else
\* i_start += 1 overflows (as it does after a quotient of i32::MAX): a panic
\* in a build with overflow checks, a wrap to i32::MIN and a loop without
\* end in one without.
tick_loop_exits(range, increment, limit) ==
    \/ /\ RLt(R(0), increment)
       /\ Floor(RDiv(limit, increment)) < I32Max
       /\ tick_quotient(range, increment) < I32Max
    \/ /\ tick_quotient(range, increment) < I32Max
       /\ RLt(limit, Rat(tick_i_start(range, increment) * increment.n, increment.d))

\* The loop of both tick walks, for a loop that reaches its break: the tick
\* positions i * increment from counter i on, up to the first that is
\* greater than limit; with a positive increment that one has the counter
\* floor(limit / increment) + 1.
tick_loop(i, increment, limit) ==
    IF RLt(limit, Rat(i * increment.n, increment.d)) THEN << >>
    ELSE [k \in 1..(Floor(RDiv(limit, increment)) - i + 1) |->
              Rat((i + k - 1) * increment.n, increment.d)]

\* X-Axis ticks: the walk ends at x_axis.range.end.
x_axis_ticks(x, increment) == tick_loop(tick_i_start(x, increment), increment, x.end)

\* Y-Axis ticks: the walk ends at painter_rect.bottom(), a pixel coordinate.
y_axis_ticks(y, increment, painter_rect) ==
    tick_loop(tick_i_start(y, increment), increment, painter_rect.max.y)

\* Both tick walks of a frame leave their loops, so that the frame goes on
\* to its callback and to its persist step.
ticks_exit(x, y, increment, painter_rect) ==
    /\ tick_loop_exits(x, increment, x.end)
    /\ tick_loop_exits(y, increment, painter_rect.max.y)

\* response.interact_pointer_pos(): the pointer position while the widget is
\* pressed or dragged, None otherwise
interact_pointer_pos(input) == IF input.down THEN input.pointer ELSE None

(***************************************************************************)
(* Plot items (eplot/items.rs): Scatter and Line                           *)
(***************************************************************************)
\* YReference
Constant(c) == [kind |-> "Constant", c |-> c, series |-> << >>]
Series(series) == [kind |-> "Series", c |-> R(0), series |-> series]

NoReference == [some |-> FALSE, reference |-> Constant(R(0))]
SomeReference(reference) == [some |-> TRUE, reference |-> reference]

\* A painter call and the positions it is given.  A marker is recorded by
\* its call and its centre; the marker's outline about the centre is not
\* part of the model.
Shape(op, pts) == [op |-> op, pts |-> pts]

\* What a paint has done: the painter calls issued, and whether it panicked.
Painted(calls, panicked) == [calls |-> calls, panicked |-> panicked]

\* Scatter::new
Scatter_new(points) ==
    [kind |-> "Scatter", points |-> points, shape |-> "Circle",
     stems |-> NoReference, area_fill |-> NoReference]

\* Scatter::stems without its assertion.
stems_unchecked(self, reference) == TRUE

\* The assertion of Scatter::stems: series.len() == self.points.len()
stems_assert(self, reference) ==
    reference.kind = "Series" => Len(reference.series) = Len(self.points)

\* Scatter::stems, past its assertion
Scatter_stems(self, reference) == [self EXCEPT !.stems = SomeReference(reference)]

\* Scatter::shape
Scatter_shape(self, shape) == [self EXCEPT !.shape = shape]

\* The painter calls of one marker at p_tf.
marker(shape, p_tf) ==
    CASE shape = "Circle" -> << Shape("circle", <<p_tf>>) >>
      [] shape = "Square" -> << Shape("rect", <<p_tf>>) >>
      [] shape = "Triangle" -> << Shape("polygon", <<p_tf>>) >>
      [] shape = "Plus" -> << Shape("line_segment", <<p_tf>>),
                              Shape("line_segment", <<p_tf>>) >>
      [] shape = "X" -> << Shape("line_segment", <<p_tf>>),
                           Shape("line_segment", <<p_tf>>) >>
      [] shape = "Star" -> [k \in 1..4 |-> Shape("line_segment", <<p_tf>>)]

\* The closure of Scatter::paint for the points from index i on (indices
\* from 0 as in the code); calls are those issued so far.
RECURSIVE scatter_for_each(_, _, _, _, _, _)
scatter_for_each(self, i, calls, x, y, rect) ==
    IF i >= Len(self.points) THEN Painted(calls, FALSE)
    ELSE LET p == self.points[i + 1]
             p_tf == plot_to_pixels(p, x, y, rect)
         IN  IF self.stems.some
             THEN LET reference == self.stems.reference
                  IN  IF reference.kind = "Series" /\ i >= Len(reference.series)
                      THEN Painted(calls, TRUE)
                      ELSE LET current_ref == IF reference.kind = "Constant"
                                              THEN reference.c
                                              ELSE reference.series[i + 1]
                               p_ref_tf == plot_to_pixels(Pos(p.x, current_ref), x, y, rect)
                           IN  scatter_for_each(self, i + 1,
                                   calls \o << Shape("line_segment", <<p_ref_tf, p_tf>>) >>
                                         \o marker(self.shape, p_tf),
                                   x, y, rect)
             ELSE scatter_for_each(self, i + 1, calls \o marker(self.shape, p_tf),
                                   x, y, rect)

\* The paint of a Scatter that ignores its stems.
Scatter_paint_without_stems(self, x, y, rect) ==
    scatter_for_each([self EXCEPT !.stems = NoReference], 0, << >>, x, y, rect)

\* <Scatter as PlotItem>::paint, transform being plot_to_pixels with the
\* ranges x, y and the plotting rectangle rect
Scatter_paint(self, x, y, rect) == scatter_for_each(self, 0, << >>, x, y, rect)

\* Line::new
Line_new(points) ==
    [kind |-> "Line", points |-> points, shape |-> "Circle",
     stems |-> NoReference, area_fill |-> NoReference]

\* Line::area_fill
Line_area_fill(self, reference) == [self EXCEPT !.area_fill = SomeReference(reference)]

\* The area fill of Line::paint for the windows of two points from index i
\* on.
RECURSIVE line_windows(_, _, _, _, _, _)
line_windows(self, i, calls, x, y, rect) ==
    IF i + 1 >= Len(self.points) THEN Painted(calls, FALSE)
    ELSE LET w0 == self.points[i + 1]
             w1 == self.points[i + 2]
             reference == self.area_fill.reference
         IN  IF reference.kind = "Series" /\ i + 1 >= Len(reference.series)
             THEN Painted(calls, TRUE)
             ELSE LET y_ref0 == IF reference.kind = "Constant" THEN reference.c
                                ELSE reference.series[i + 1]
                      y_ref1 == IF reference.kind = "Constant" THEN reference.c
                                ELSE reference.series[i + 2]
                      start_down == plot_to_pixels(Pos(w0.x, y_ref0), x, y, rect)
                      end_down == plot_to_pixels(Pos(w1.x, y_ref1), x, y, rect)
                  IN  line_windows(self, i + 1,
                          calls \o << Shape("polygon",
                                            << plot_to_pixels(w1, x, y, rect),
                                               plot_to_pixels(w0, x, y, rect),
                                               start_down, end_down >>) >>,
                          x, y, rect)

\* The polyline stroked ahead of the area fill.
line_stroke_before_fill(self, filled, x, y, rect) ==
    IF filled.panicked THEN filled
    ELSE Painted(<< Shape("line", [k \in 1..Len(self.points) |->
                                      plot_to_pixels(self.points[k], x, y, rect)]) >>
                     \o filled.calls,
                 FALSE)

\* The polyline of Line::paint, after the area fill.
line_stroke(self, filled, x, y, rect) ==
    IF filled.panicked THEN filled
    ELSE Painted(filled.calls
                     \o << Shape("line", [k \in 1..Len(self.points) |->
                                              plot_to_pixels(self.points[k], x, y, rect)]) >>,
                 FALSE)

\* <Line as PlotItem>::paint
Line_paint(self, x, y, rect) ==
    line_stroke(self,
                IF self.area_fill.some THEN line_windows(self, 0, << >>, x, y, rect)
                ELSE Painted(<< >>, FALSE),
                x, y, rect)

\* PlotItem::paint
paint(self, x, y, rect) ==
    IF self.kind = "Scatter" THEN Scatter_paint(self, x, y, rect)
    ELSE Line_paint(self, x, y, rect)

(***************************************************************************)
(* The painter calls of one frame of Plot::show, in the order of issue     *)
(***************************************************************************)
\* A painter call of a frame: the part of Plot::show that issues it (for a
\* call of a submitted item "add" and the item's number in the callback,
\* from 1), and the call.
Call(by, index, shape) == [by |-> by, index |-> index, shape |-> shape]

\* painter.rect(painter_rect, ...): the border of the plotting rectangle
border_calls(painter_rect) ==
    << Call("border", 0, Shape("rect", <<painter_rect.min, painter_rect.max>>)) >>

\* The title above the plotting rectangle, at center_top() - vec2(0, 2).
title_calls(p, painter_rect) ==
    IF p.title
    THEN << Call("title", 0,
                 Shape("text", << Pos(RDiv(RAdd(painter_rect.min.x, painter_rect.max.x), R(2)),
                                      RSub(painter_rect.min.y, R(2))) >>)) >>
    ELSE << >>

\* The label of the x axis, at center_bottom() + vec2(0, 25).
x_label_calls(p, painter_rect) ==
    IF p.x_axis.label # ""
    THEN << Call("x_label", 0,
                 Shape("text", << Pos(RDiv(RAdd(painter_rect.min.x, painter_rect.max.x), R(2)),
                                      RAdd(painter_rect.max.y, R(25))) >>)) >>
    ELSE << >>

\* The calls of the X tick walk.  The three calls of one tick, its mark, its
\* grid line and its label, are recorded as one entry with the data position
\* of the tick, pos2(tick_pos_x, y_axis.range.start); their pixel positions
\* are not part of the model.
x_tick_calls(ticks, x, y, painter_rect) ==
    [k \in 1..Len(ticks) |->
        Call("x_tick", 0, Shape("line_segment, line_segment, text",
                                << Pos(ticks[k], y.start) >>))]

\* The calls of the Y tick walk, at pos2(x_axis.range.start, tick_pos_y).
y_tick_calls(ticks, x, y, painter_rect) ==
    [k \in 1..Len(ticks) |->
        Call("y_tick", 0, Shape("line_segment, line_segment, text",
                                << Pos(x.start, ticks[k]) >>))]

\* painter.set_clip_rect(painter_rect)
set_clip_rect(painter_rect) ==
    << Call("set_clip_rect", 0,
            Shape("set_clip_rect", <<painter_rect.min, painter_rect.max>>)) >>

\* add_contents(&mut plot_ui): the callback submits its items from number j
\* on with PlotUi::add, which paints each at once with plot_to_screen.
RECURSIVE add_contents(_, _, _, _, _)
add_contents(contents, j, x, y, painter_rect) ==
    IF j > Len(contents) THEN << >>
    ELSE LET calls == paint(contents[j], x, y, painter_rect).calls
         IN  [k \in 1..Len(calls) |-> Call("add", j, calls[k])]
                 \o add_contents(contents, j + 1, x, y, painter_rect)

\* Show mouse position: the text at right_bottom() + vec2(-10, -10).
cursor_calls(p, input, painter_rect) ==
    IF p.show_cursor_pos /\ filter_contains(input.pointer, painter_rect).some
    THEN << Call("cursor_pos", 0,
                 Shape("text", << Pos(RSub(painter_rect.max.x, R(10)),
                                      RSub(painter_rect.max.y, R(10))) >>)) >>
    ELSE << >>

\* The frame's calls with the clip rectangle set after the callback.
frame_calls_clip_after_contents(p, input, painter_rect, zoomed, x_ticks, y_ticks) ==
    border_calls(painter_rect)
        \o title_calls(p, painter_rect)
        \o x_label_calls(p, painter_rect)
        \o x_tick_calls(x_ticks, zoomed.x, zoomed.y, painter_rect)
        \o y_tick_calls(y_ticks, zoomed.x, zoomed.y, painter_rect)
        \o add_contents(input.contents, 1, zoomed.x, zoomed.y, painter_rect)
        \o set_clip_rect(painter_rect)
        \o cursor_calls(p, input, painter_rect)

\* All painter calls of one frame: border, title and axis label, the ticks
\* of both axes, the clip rectangle, the callback's items, the cursor text.
frame_calls(p, input, painter_rect, zoomed, x_ticks, y_ticks) ==
    border_calls(painter_rect)
        \o title_calls(p, painter_rect)
        \o x_label_calls(p, painter_rect)
        \o x_tick_calls(x_ticks, zoomed.x, zoomed.y, painter_rect)
        \o y_tick_calls(y_ticks, zoomed.x, zoomed.y, painter_rect)
        \o set_clip_rect(painter_rect)
        \o add_contents(input.contents, 1, zoomed.x, zoomed.y, painter_rect)
        \o cursor_calls(p, input, painter_rect)

\* Persist: what the frame leaves behind, the PlotMemory written back among it.
\* A frame whose tick walks do not exit does not get to its callback nor to
\* its persist step; of its calls those ahead of the walks are recorded, and
\* its ticks are not enumerated.
show_persist(p, mem, input, painter_rect, start, locked, dragged, zoomed, increment, exits, x_ticks, y_ticks) ==
    [present |-> TRUE,
     increment |-> increment,
     x_ticks |-> x_ticks,
     y_ticks |-> y_ticks,
     persisted |-> exits,
     calls |-> IF exits
               THEN frame_calls(p, input, painter_rect, zoomed, x_ticks, y_ticks)
               ELSE border_calls(painter_rect) \o title_calls(p, painter_rect)
                        \o x_label_calls(p, painter_rect),
     label |-> p.label,
     painter_rect |-> painter_rect,
     input |-> input,
     last_drag_pos |-> mem.last_drag_pos,
     start |-> start,
     locked |-> locked,
     dragged |-> [x |-> dragged.x, y |-> dragged.y],
     zoomed |-> zoomed,
     memory |-> [present |-> TRUE,
                 last_drag_pos |-> dragged.last_drag_pos,
                 x_axis_range |-> zoomed.x,
                 y_axis_range |-> zoomed.y]]

show_walks(p, mem, input, painter_rect, start, locked, dragged, zoomed, increment, exits) ==
    show_persist(p, mem, input, painter_rect, start, locked, dragged, zoomed,
                 increment, exits,
                 IF exits THEN x_axis_ticks(zoomed.x, increment) ELSE << >>,
                 IF exits THEN y_axis_ticks(zoomed.y, increment, painter_rect) ELSE << >>)

show_exits(p, mem, input, painter_rect, start, locked, dragged, zoomed, increment) ==
    show_walks(p, mem, input, painter_rect, start, locked, dragged, zoomed,
               increment, ticks_exit(zoomed.x, zoomed.y, increment, painter_rect))

show_ticks(p, mem, input, painter_rect, start, locked, dragged, zoomed) ==
    show_exits(p, mem, input, painter_rect, start, locked, dragged, zoomed,
               tick_increment(zoomed.x, zoomed.y))

show_zoom(p, mem, input, painter_rect, start, locked, dragged) ==
    show_ticks(p, mem, input, painter_rect, start, locked, dragged,
               zooming(dragged.x, dragged.y, painter_rect, input.pointer,
                       input.scroll))

show_drag(p, mem, input, painter_rect, start, locked) ==
    show_zoom(p, mem, input, painter_rect, start, locked,
              dragging(locked.x, locked.y, painter_rect, interact_pointer_pos(input),
                       mem.last_drag_pos))

show_aspect(p, mem, input, painter_rect, start) ==
    show_drag(p, mem, input, painter_rect, start,
              aspect_lock(start.x, start.y, painter_rect))

\* One frame of Plot::show for builder p on its PlotMemory mem under the
\* frame's input, step by step: the ranges the frame starts from and the
\* layout, the aspect lock, dragging, zooming, persist.
show(p, mem, input) ==
    show_aspect(p, mem, input, layout(input.full_rect, p.title, p.x_axis.label),
                start_ranges(p, mem))

NoFrame == [present |-> FALSE]

(***************************************************************************)
(* The program: requests of plots, builder calls and frames                *)
(***************************************************************************)
\* Number of Plot::show calls in one behaviour.
MaxFrames == 2

\* Number of frames with a non-zero scroll delta in one behaviour.
MaxScrolls == 1

\* The labels of PlotCtx.memory; the frame machine Spec shows one plot,
\* SpecCtx shows both.
Labels == { "a", "b" }
SpecLabels == { "a" }

\* Ranges passed to x_axis_range / y_axis_range.
BuilderRanges == { Rng(R(0), R(5)) }

\* The panel rectangles the host allocates: with the margins of an untitled
\* plot they leave a square (50 x 50), a tall (25 x 50) and a wide (100 x 50)
\* plotting rectangle, 10 pixels lower under a title.
SquareRect == Rect_from_min_max(pos2(0, 0), pos2(100, 100))
TallRect == Rect_from_min_max(pos2(0, 0), pos2(75, 100))
WideRect == Rect_from_min_max(pos2(0, 0), pos2(150, 100))
FullRects == { SquareRect, TallRect, WideRect }

\* Pointer and scroll of one frame.  Pixel (65, 35) is the centre of the
\* untitled square plotting rectangle, (70, 30) lies inside it at data (2, 2)
\* of the default ranges, (20, 35) lies in the left margin; (40, 60) and
\* (90, 60) are the lower corners of the square plotting rectangle, with or
\* without a title.
Event(pointer, down, scroll) == [pointer |-> pointer, down |-> down, scroll |-> scroll]
PointerEvents ==
    { Event(None, FALSE, R(0)),
      Event(Some(pos2(70, 30)), TRUE, R(0)),
      Event(Some(pos2(65, 35)), TRUE, R(0)),
      Event(Some(pos2(45, 35)), TRUE, R(0)),
      Event(Some(pos2(90, 60)), FALSE, R(10)),
      Event(Some(pos2(40, 60)), FALSE, R(-20)),
      Event(Some(pos2(20, 35)), FALSE, R(10)),
      Event(Some(pos2(90, 60)), TRUE, R(5)) }

\* The items the callback of a frame submits, in this order: a filled Line
\* and a Scatter with stems while the pointer is away, one Scatter while the
\* widget is pressed, none while the pointer hovers.
contents_of(e) ==
    IF ~e.pointer.some
    THEN << Line_area_fill(Line_new(<< pos2(0, 0), pos2(2, 2) >>), Constant(R(0))),
            Scatter_stems(Scatter_shape(Scatter_new(<< pos2(2, 2) >>), "Plus"),
                          Series(<< R(1) >>)) >>
    ELSE IF e.down
    THEN << Scatter_new(<< pos2(2, 2) >>) >>
    ELSE << >>

Input(full_rect, e) ==
    [full_rect |-> full_rect, pointer |-> e.pointer, down |-> e.down,
     scroll |-> e.scroll, contents |-> contents_of(e)]

\* The frames of the square panel take every event, those of the tall and of
\* the wide panel the idle event and one scroll.
Inputs ==
    { Input(r, e) : r \in FullRects, e \in { Event(None, FALSE, R(0)) } }
        \cup { Input(SquareRect, e) : e \in PointerEvents }
        \cup { Input(TallRect, Event(Some(pos2(65, 60)), FALSE, R(-20))),
               Input(WideRect, Event(Some(pos2(40, 60)), FALSE, R(10))) }

\* The frames of SpecCtx: the square panel; idle, pressed or scrolled.
CtxInputs ==
    { Input(SquareRect, e) :
          e \in { Event(None, FALSE, R(0)),
                  Event(Some(pos2(70, 30)), TRUE, R(0)),
                  Event(Some(pos2(65, 35)), TRUE, R(0)),
                  Event(Some(pos2(90, 60)), FALSE, R(10)),
                  Event(Some(pos2(40, 60)), FALSE, R(-20)),
                  Event(Some(pos2(20, 35)), FALSE, R(10)) } }

RECURSIVE Sum(_, _)
Sum(f, S) == IF S = {} THEN 0 ELSE LET l == CHOOSE l \in S : TRUE
                                   IN  f[l] + Sum(f, S \ {l})

\* The number of frames shown so far, all plots together.
TotalFrames == Sum(nframes, Labels)

\* PlotCtx::plot(label)
PlotCtx_plot(label) ==
    /\ ~plt.present
    /\ frame.present => frame.persisted
    /\ TotalFrames < MaxFrames
    /\ memory' = entry_or_default(memory, label)
    /\ plt' = new_with_memory(label)
    /\ UNCHANGED <<frame, nframes, nscrolls, axisVars, itemVars>>

\* Plot::title
Plot_title ==
    /\ plt.present
    /\ plt' = [plt EXCEPT !.title = TRUE]
    /\ UNCHANGED <<memory, frame, nframes, nscrolls, axisVars, itemVars>>

\* Plot::x_axis_range
Plot_x_axis_range(range) ==
    /\ plt.present
    /\ plt' = [plt EXCEPT !.x_axis.range = AxisRange_new(range)]
    /\ UNCHANGED <<memory, frame, nframes, nscrolls, axisVars, itemVars>>

\* Plot::y_axis_range
Plot_y_axis_range(range) ==
    /\ plt.present
    /\ plt' = [plt EXCEPT !.y_axis.range = AxisRange_new(range)]
    /\ UNCHANGED <<memory, frame, nframes, nscrolls, axisVars, itemVars>>

\* Plot::show
Plot_show(input) ==
    /\ plt.present
    /\ input.scroll # R(0) => nscrolls < MaxScrolls
    /\ frame' = show(plt, memory[plt.label], input)
    /\ memory' = IF frame'.persisted
                 THEN [memory EXCEPT ![plt.label] = frame'.memory]
                 ELSE memory
    /\ plt' = NoPlot
    /\ nframes' = [nframes EXCEPT ![plt.label] = @ + 1]
    /\ nscrolls' = IF input.scroll # R(0) THEN nscrolls + 1 ELSE nscrolls
    /\ UNCHANGED <<axisVars, itemVars>>

(***************************************************************************)
(* The program: plot items constructed and submitted to a PlotUi           *)
(***************************************************************************)
\* Number of plot items constructed in one behaviour.
MaxItems == 1

NoItem == [kind |-> "none"]
NoItemCall == [op |-> "none", reference |-> Constant(R(0))]
NoPainted == [item |-> NoItem, calls |-> << >>, panicked |-> FALSE]

\* The point lists given to Scatter::new and Line::new.
PointLists ==
    { << >>,
      << pos2(0, 0) >>,
      << pos2(0, 0), pos2(2, 2) >>,
      << pos2(0, 0), pos2(2, 2), pos2(4, 1) >> }

\* The references given to Scatter::stems and Line::area_fill.
References ==
    { Constant(R(0)),
      Series(<< >>),
      Series(<< R(-1) >>),
      Series(<< R(-1), R(1) >>),
      Series(<< R(-1), R(1), R(-2) >>) }

MarkerShapes == { "Circle", "Triangle", "Square", "Plus", "X", "Star" }

\* Scatter::new
ScatterNew(points) ==
    /\ ~aborted
    /\ item = NoItem
    /\ nitems < MaxItems
    /\ item' = Scatter_new(points)
    /\ itemcall' = [op |-> "Scatter::new", reference |-> Constant(R(0))]
    /\ nitems' = nitems + 1
    /\ UNCHANGED <<painted, aborted, plotVars, axisVars>>

\* Scatter::stems: the assertion panics before the item is changed.
ScatterStems(reference) ==
    /\ ~aborted
    /\ item.kind = "Scatter"
    /\ itemcall' = [op |-> "Scatter::stems", reference |-> reference]
    /\ IF stems_assert(item, reference)
       THEN item' = Scatter_stems(item, reference) /\ aborted' = FALSE
       ELSE item' = item /\ aborted' = TRUE
    /\ UNCHANGED <<painted, nitems, plotVars, axisVars>>

\* Scatter::shape
ScatterShape(shape) ==
    /\ ~aborted
    /\ item.kind = "Scatter"
    /\ item' = Scatter_shape(item, shape)
    /\ itemcall' = [op |-> "Scatter::shape", reference |-> Constant(R(0))]
    /\ UNCHANGED <<painted, aborted, nitems, plotVars, axisVars>>

\* Line::new
LineNew(points) ==
    /\ ~aborted
    /\ item = NoItem
    /\ nitems < MaxItems
    /\ item' = Line_new(points)
    /\ itemcall' = [op |-> "Line::new", reference |-> Constant(R(0))]
    /\ nitems' = nitems + 1
    /\ UNCHANGED <<painted, aborted, plotVars, axisVars>>

\* Line::area_fill
LineAreaFill(reference) ==
    /\ ~aborted
    /\ item.kind = "Line"
    /\ item' = Line_area_fill(item, reference)
    /\ itemcall' = [op |-> "Line::area_fill", reference |-> reference]
    /\ UNCHANGED <<painted, aborted, nitems, plotVars, axisVars>>

\* PlotUi::add: the item is painted at once, with the transform of a frame
\* that shows the default ranges in the square panel.
PlotUi_add ==
    /\ ~aborted
    /\ item # NoItem
    /\ painted' = [item |-> item] @@
                  paint(item, Axis_default.range, Axis_default.range,
                        layout(SquareRect, FALSE, ""))
    /\ aborted' = painted'.panicked
    /\ item' = NoItem
    /\ itemcall' = [op |-> "PlotUi::add", reference |-> Constant(R(0))]
    /\ UNCHANGED <<nitems, plotVars, axisVars>>

InitItems ==
    /\ item = NoItem
    /\ itemcall = NoItemCall
    /\ painted = NoPainted
    /\ aborted = FALSE
    /\ nitems = 0

NextItems ==
    \/ \E points \in PointLists : ScatterNew(points)
    \/ \E reference \in References : ScatterStems(reference)
    \/ \E shape \in MarkerShapes : ScatterShape(shape)
    \/ \E points \in PointLists : LineNew(points)
    \/ \E reference \in References : LineAreaFill(reference)
    \/ PlotUi_add

InitPlot ==
    /\ memory = [l \in Labels |-> NoEntry]
    /\ plt = NoPlot
    /\ frame = NoFrame
    /\ nframes = [l \in Labels |-> 0]
    /\ nscrolls = 0

Init ==
    /\ InitPlot
    /\ InitItems
    /\ axis = Lin(R(0), R(0))
    /\ call = NoCall
    /\ nops = 0

Next ==
    \/ \E label \in SpecLabels : PlotCtx_plot(label)
    \/ Plot_title
    \/ \E range \in BuilderRanges : Plot_x_axis_range(range)
    \/ \E range \in BuilderRanges : Plot_y_axis_range(range)
    \/ \E input \in Inputs : Plot_show(input)

Spec == Init /\ [][Next]_vars

\* Two plots in one PlotCtx, each requested and shown with the builder's
\* defaults.
NextCtx ==
    \/ \E label \in Labels : PlotCtx_plot(label)
    \/ \E input \in CtxInputs : Plot_show(input)

SpecCtx == Init /\ [][NextCtx]_vars

InitAxis ==
    /\ axis \in AxisRanges
    /\ call = NoCall
    /\ nops = 0
    /\ InitPlot
    /\ InitItems

NextAxis ==
    \/ \E delta \in Deltas : Translate(delta)
    \/ \E amount \in Amounts, center \in Centers : Zoom(amount, center)
    \/ \E pr \in PixelRanges, flip \in BOOLEAN :
           \E pixel \in PixelsOf(pr) : PixelToAxis(pr, pixel, flip)
    \/ \E pr \in PixelRanges, flip \in BOOLEAN :
           \E axis_pos \in AxisPositionsOf(axis) : AxisToPixel(pr, axis_pos, flip)

SpecAxis == InitAxis /\ [][NextAxis]_vars

SpecItems == Init /\ [][NextItems]_vars

\* The PlotMemory of a plot after one frame without input in one of the
\* panels, from the default PlotMemory: what a plot holds when its panel is
\* given another shape.
ResizedMemories ==
    { show(new_with_memory("a"), PlotMemory_default,
           Input(r, Event(None, FALSE, R(0)))).memory : r \in FullRects }

InitResized ==
    /\ memory \in { [l \in Labels |-> IF l = "a" THEN m ELSE NoEntry] :
                        m \in ResizedMemories }
    /\ plt = NoPlot
    /\ frame = NoFrame
    /\ nframes = [l \in Labels |-> 0]
    /\ nscrolls = 0
    /\ InitItems
    /\ axis = Lin(R(0), R(0))
    /\ call = NoCall
    /\ nops = 0

\* The frames of a plot whose panel has had another shape before.
SpecResized == InitResized /\ [][Next]_vars

(***************************************************************************)
(* Properties of the AxisRange methods, checked under SpecAxis             *)
(***************************************************************************)
\* The data value at fractional position center of a range.
ValueAt(r, center) == RAdd(r.start, RMul(center, extent(r)))

\* C1: zoom is anchor-preserving: for a range with end > start and a center
\* in [0,1], the data value at fractional position center is the same before
\* and after zoom(amount, center).
C1_ZoomPreservesAnchor ==
    (/\ call.op = "zoom"
     /\ RLt(call.pre.start, call.pre.end)
     /\ RLe(R(0), call.center) /\ RLe(call.center, R(1)))
    => ValueAt(axis, call.center) = ValueAt(call.pre, call.center)

\* C2: zoom moves start by -amount*center*extent and end by
\* +amount*(1-center)*extent with one extent value, that of the range before
\* the call; so zoom(-0.1, 0.5) takes {-10, 10} to {-9, 9}.
C2_ZoomUsesOneExtent ==
    call.op = "zoom" =>
        /\ axis.start = RSub(call.pre.start,
                             RMul(RMul(call.amount, call.center), extent(call.pre)))
        /\ axis.end = RAdd(call.pre.end,
                           RMul(RMul(call.amount, RSub(R(1), call.center)),
                                extent(call.pre)))
        /\ (/\ call.pre = Lin(R(-10), R(10))
            /\ call.amount = Rat(-1, 10)
            /\ call.center = Rat(1, 2)) => axis = Lin(R(-9), R(9))

\* C3: translate(delta) leaves the extent as it was and moves the middle by
\* delta.
C3_TranslateKeepsExtent ==
    call.op = "translate" =>
        /\ extent(axis) = extent(call.pre)
        /\ middle(axis) = RAdd(middle(call.pre), call.delta)

\* A translate by a non-zero delta has been applied.
C3_Witness == call.op = "translate" /\ call.delta # R(0) /\ axis # call.pre

\* C4: for a Linear range with end > start and a pixel range of non-zero
\* width, axis_to_pixel undoes pixel_to_axis for the same pixel range and
\* flip.
C4_LinearRoundTrip ==
    (/\ call.op = "pixel_to_axis"
     /\ call.pre.scaling = "Linear"
     /\ RLt(call.pre.start, call.pre.end)
     /\ call.pixel_range.lo # call.pixel_range.hi)
    => axis_to_pixel(call.pre, call.pixel_range, call.ret, call.flip) = call.arg

\* pixel_to_axis has mapped an inner pixel through a flipped Linear range.
C4_Witness ==
    /\ call.op = "pixel_to_axis"
    /\ call.pre.scaling = "Linear"
    /\ call.flip
    /\ call.arg # call.pixel_range.lo
    /\ call.arg # call.pixel_range.hi
    /\ call.ret # call.arg

\* C5: under Logarithmic scaling with 0 < start < end and flip = false,
\* axis_to_pixel maps start to the first pixel bound and end to the second,
\* and pixel_to_axis maps the pixel bounds back to start and end.
C5_LogRoundTrip ==
    (/\ call.pre.scaling = "Logarithmic"
     /\ LogDefined(call.pre)
     /\ ~call.flip)
    => /\ (call.op = "axis_to_pixel" /\ call.arg = call.pre.start)
              => call.ret = call.pixel_range.lo
       /\ (call.op = "axis_to_pixel" /\ call.arg = call.pre.end)
              => call.ret = call.pixel_range.hi
       /\ (call.op = "pixel_to_axis" /\ call.arg = call.pixel_range.lo)
              => call.ret = call.pre.start
       /\ (call.op = "pixel_to_axis" /\ call.arg = call.pixel_range.hi)
              => call.ret = call.pre.end

\* C16: for a Linear range with end > start and flip = false, axis_to_pixel
\* maps start to the first pixel bound, end to the second and the middle to
\* the pixel midpoint; for {-10, 10} on pixels [0, 800]: -10 -> 0, 0 -> 400,
\* 10 -> 800.
C16_AxisToPixelLinear ==
    (/\ call.op = "axis_to_pixel"
     /\ call.pre.scaling = "Linear"
     /\ RLt(call.pre.start, call.pre.end)
     /\ ~call.flip)
    => /\ call.arg = call.pre.start => call.ret = call.pixel_range.lo
       /\ call.arg = call.pre.end => call.ret = call.pixel_range.hi
       /\ call.arg = RDiv(RAdd(call.pre.start, call.pre.end), R(2))
              => call.ret = RDiv(RAdd(call.pixel_range.lo, call.pixel_range.hi), R(2))
       /\ (call.pre = Lin(R(-10), R(10)) /\ call.pixel_range = Rng(R(0), R(800)))
              => /\ call.arg = R(-10) => call.ret = R(0)
                 /\ call.arg = R(0) => call.ret = R(400)
                 /\ call.arg = R(10) => call.ret = R(800)

\* axis_to_pixel(0) on {-10, 10} over pixels [0, 800] has returned 400.
C16_Witness ==
    /\ call.op = "axis_to_pixel"
    /\ ~call.flip
    /\ call.pre = Lin(R(-10), R(10))
    /\ call.pixel_range = Rng(R(0), R(800))
    /\ call.arg = R(0)
    /\ call.ret = R(400)

\* C17: for a range with end > start and a center in [0,1], zoom with
\* amount > 0 strictly increases the extent, and zoom with -1 < amount < 0
\* strictly decreases it and leaves end > start.
C17_ZoomDirection ==
    (/\ call.op = "zoom"
     /\ RLt(call.pre.start, call.pre.end)
     /\ RLe(R(0), call.center) /\ RLe(call.center, R(1)))
    => /\ RLt(R(0), call.amount)
              => RLt(RSub(call.pre.end, call.pre.start), RSub(axis.end, axis.start))
       /\ (RLt(R(-1), call.amount) /\ RLt(call.amount, R(0)))
              => /\ RLt(RSub(axis.end, axis.start), RSub(call.pre.end, call.pre.start))
                 /\ RLt(axis.start, axis.end)

\* A zoom by -9/10 about an inner center has shrunk a range.
C17_Witness ==
    /\ call.op = "zoom"
    /\ call.amount = Rat(-9, 10)
    /\ call.center = Rat(1, 2)
    /\ RLt(axis.start, axis.end)
    /\ RLt(call.pre.start, axis.start)

(***************************************************************************)
(* Properties of the frame machine, checked under Spec and SpecCtx         *)
(***************************************************************************)
\* A step that is a Plot::show of the builder plt.
ShowStep == plt.present /\ ~plt'.present

\* A step that is a PlotCtx::plot request of label l.
RequestStep(l) == ~plt.present /\ plt'.present /\ plt'.label = l

\* The last frame translated the ranges: the pointer is pressed and a drag
\* position was remembered from the frame before.
FrameDragged ==
    /\ frame.present
    /\ frame.input.down /\ frame.input.pointer.some
    /\ frame.last_drag_pos.some

\* Data-space position of pixel pos under the last frame's ranges before
\* the translation.
DataBeforeDrag(pos) ==
    pixels_to_plot(pos, frame.locked.x, frame.locked.y, frame.painter_rect)

\* C6: pan follows the pointer: with the pointer pressed at pixel p and the
\* previous frame's drag pixel q remembered, both ranges are translated by
\* data(q) - data(p), both taken with the ranges before the translation;
\* the data point that was under q lies under p afterwards, and a drag from
\* data (2,2) to data (0,0) translates both ranges by +2.
C6_PanFollowsPointer ==
    FrameDragged =>
        LET dp == DataBeforeDrag(frame.input.pointer.pos)
            dq == DataBeforeDrag(frame.last_drag_pos.pos)
            dx == RSub(dq.x, dp.x)
            dy == RSub(dq.y, dp.y)
        IN  /\ frame.dragged.x.start = RAdd(frame.locked.x.start, dx)
            /\ frame.dragged.x.end = RAdd(frame.locked.x.end, dx)
            /\ frame.dragged.y.start = RAdd(frame.locked.y.start, dy)
            /\ frame.dragged.y.end = RAdd(frame.locked.y.end, dy)
            /\ pixels_to_plot(frame.input.pointer.pos, frame.dragged.x,
                              frame.dragged.y, frame.painter_rect) = dq
            /\ (dq = pos2(2, 2) /\ dp = pos2(0, 0)) => dx = R(2) /\ dy = R(2)

\* A drag from data (2,2) to data (0,0) has moved the default ranges to
\* [-8, 12] on both axes.
C6_Witness ==
    /\ FrameDragged
    /\ DataBeforeDrag(frame.last_drag_pos.pos) = pos2(2, 2)
    /\ DataBeforeDrag(frame.input.pointer.pos) = pos2(0, 0)
    /\ frame.locked.x = Lin(R(-10), R(10)) /\ frame.locked.y = Lin(R(-10), R(10))
    /\ frame.dragged.x = Lin(R(-8), R(12)) /\ frame.dragged.y = Lin(R(-8), R(12))

\* C7: in the first show of a label the frame starts from the ranges passed
\* to the builder by x_axis_range / y_axis_range.
C7_BuilderRangesOnFirstShow ==
    [][(ShowStep /\ nframes[plt.label] = 0)
           => /\ frame'.start.x = plt.x_axis.range
              /\ frame'.start.y = plt.y_axis.range]_vars

\* C8: in every show of a label after its first the frame starts from the
\* ranges of the label's PlotMemory, which are those the previous show of
\* the label persisted: a PlotMemory changes in a show of its label only.
C8_LaterShowsStartFromMemory ==
    [][/\ (ShowStep /\ nframes[plt.label] > 0)
              => /\ frame'.start.x = memory[plt.label].x_axis_range
                 /\ frame'.start.y = memory[plt.label].y_axis_range
       /\ \A l \in Labels :
              (memory[l].present /\ ~(ShowStep /\ plt.label = l))
                  => memory'[l] = memory[l]
       /\ ShowStep => memory'[plt.label] = frame'.memory]_vars

\* A second show of a label has started from ranges that the first show
\* changed.
C8_Witness ==
    /\ frame.present
    /\ nframes[frame.label] > 1
    /\ frame.start.x # Lin(R(-10), R(10))
    /\ frame.start.y # Lin(R(-10), R(10))

\* C9: the first request of a label creates a PlotMemory with x and y range
\* [-10, 10] (end > start) and no remembered drag position; a later request
\* of the label leaves the entry as it is; entries are never removed.
C9_RegistryEntries ==
    [][\A l \in Labels :
          /\ memory[l].present => memory'[l].present
          /\ RequestStep(l) =>
                 IF memory[l].present
                 THEN memory'[l] = memory[l]
                 ELSE /\ memory'[l].present
                      /\ memory'[l].x_axis_range = Lin(R(-10), R(10))
                      /\ memory'[l].y_axis_range = Lin(R(-10), R(10))
                      /\ RLt(memory'[l].x_axis_range.start, memory'[l].x_axis_range.end)
                      /\ RLt(memory'[l].y_axis_range.start, memory'[l].y_axis_range.end)
                      /\ ~memory'[l].last_drag_pos.some]_vars

\* A label whose entry a frame has changed has been requested again and the
\* entry still holds the changed ranges, while the other label has no entry.
C9_Witness ==
    \E l \in Labels, m \in Labels :
        /\ l # m
        /\ plt.present /\ plt.label = l
        /\ nframes[l] > 0
        /\ memory[l].x_axis_range # Lin(R(-10), R(10))
        /\ ~memory[m].present

\* C10: after the aspect-lock step one data unit covers the same number of
\* pixels on both axes, x extent / painter width = y extent / painter
\* height, and both midpoints are those before the step.
C10_AspectLocked ==
    (/\ frame.present
     /\ RLt(frame.start.x.start, frame.start.x.end)
     /\ RLt(frame.start.y.start, frame.start.y.end))
    => /\ RDiv(extent(frame.locked.x), width(frame.painter_rect))
              = RDiv(extent(frame.locked.y), height(frame.painter_rect))
       /\ middle(frame.locked.x) = middle(frame.start.x)
       /\ middle(frame.locked.y) = middle(frame.start.y)

\* The pointer of the last frame has a position inside the plotting rectangle.
PointerInside ==
    /\ frame.input.pointer.some
    /\ RLe(frame.painter_rect.min.x, frame.input.pointer.pos.x)
    /\ RLe(frame.input.pointer.pos.x, frame.painter_rect.max.x)
    /\ RLe(frame.painter_rect.min.y, frame.input.pointer.pos.y)
    /\ RLe(frame.input.pointer.pos.y, frame.painter_rect.max.y)

\* The scroll delta of the last frame, limited to [-10, 10].
ScrollLimited ==
    IF RLt(frame.input.scroll, R(-10)) THEN R(-10)
    ELSE IF RLt(R(10), frame.input.scroll) THEN R(10) ELSE frame.input.scroll

\* C11: the zoom step changes the ranges of a frame iff the scroll delta is
\* non-zero and the pointer has a position inside the plotting rectangle;
\* then each axis is zoomed by -0.01 * clamp(scroll, -10, 10), of magnitude
\* at most 0.1, about the pointer's fractional position, from the left for
\* X and from the bottom for Y.
C11_ZoomStep ==
    frame.present =>
        LET applies == frame.input.scroll # R(0) /\ PointerInside
            amount == RMul(Rat(-1, 100), ScrollLimited)
            fx == RDiv(RSub(frame.input.pointer.pos.x, frame.painter_rect.min.x),
                       RSub(frame.painter_rect.max.x, frame.painter_rect.min.x))
            fy == RDiv(RSub(frame.painter_rect.max.y, frame.input.pointer.pos.y),
                       RSub(frame.painter_rect.max.y, frame.painter_rect.min.y))
        IN  /\ applies <=> (frame.zoomed.x # frame.dragged.x \/ frame.zoomed.y # frame.dragged.y)
            /\ applies => /\ frame.zoomed.x = zoom(frame.dragged.x, amount, fx)
                          /\ frame.zoomed.y = zoom(frame.dragged.y, amount, fy)
                          /\ RLe(Rat(-1, 10), amount) /\ RLe(amount, Rat(1, 10))
                          /\ frame.zoomed.x # frame.dragged.x
                          /\ frame.zoomed.y # frame.dragged.y

\* A frame with scroll delta -20 and the pointer inside the rectangle has
\* zoomed both axes.
C11_Witness ==
    /\ frame.present
    /\ frame.input.scroll = R(-20)
    /\ PointerInside
    /\ frame.zoomed.x # frame.dragged.x
    /\ frame.zoomed.y # frame.dragged.y

\* The smaller of the two extents the ticks of the last frame are laid out
\* for.
SmallerExtent ==
    LET ex == RSub(frame.zoomed.x.end, frame.zoomed.x.start)
        ey == RSub(frame.zoomed.y.end, frame.zoomed.y.start)
    IN  IF RLt(ey, ex) THEN ey ELSE ex

\* C12: the tick increment lies in the tolerance band: for a smaller-axis
\* extent E > 0 and k = 5, 0.5 * E / k <= increment <= 1.5 * E / k.
C12_IncrementInBand ==
    (frame.present /\ RLt(R(0), SmallerExtent))
    => /\ RLe(RMul(Rat(1, 10), SmallerExtent), frame.increment)
       /\ RLe(frame.increment, RMul(Rat(3, 10), SmallerExtent))

\* A frame whose axes have different extents has taken an increment from
\* the band of the smaller one, here the X axis.
C12_Witness ==
    /\ frame.present
    /\ RLt(RSub(frame.zoomed.x.end, frame.zoomed.x.start),
           RSub(frame.zoomed.y.end, frame.zoomed.y.start))
    /\ RLt(RMul(Rat(1, 10), SmallerExtent), frame.increment)
    /\ RLt(frame.increment, RMul(Rat(3, 10), SmallerExtent))

\* C13: the tick increment is m * 10^n with m in {1, 2, 5} and n an integer.
C13_IncrementOneTwoFive ==
    frame.present =>
        \E m \in {1, 2, 5}, n \in -MaxDecade..MaxDecade :
            frame.increment = (IF n >= 0 THEN Rat(m * 10 ^ n, 1) ELSE Rat(m, 10 ^ (-n)))

\* C19: on both axes the tick walk stops as soon as the multiple exceeds the
\* axis's range.end: every X tick is <= x_range.end and every Y tick is
\* <= y_range.end.
C19_TicksWithinRangeEnd ==
    frame.present =>
        /\ \A j \in 1..Len(frame.x_ticks) : RLe(frame.x_ticks[j], frame.zoomed.x.end)
        /\ \A j \in 1..Len(frame.y_ticks) : RLe(frame.y_ticks[j], frame.zoomed.y.end)

\* C20: an X tick is emitted for every integer multiple of the increment
\* strictly between range.start and range.end, the multiple 0 included when
\* start < 0 < end, each exactly once, and no X tick lies below range.start.
C20_XTickCoverage ==
    (/\ frame.present
     /\ RLt(R(0), frame.increment)
     /\ RLt(frame.zoomed.x.start, frame.zoomed.x.end))
    => LET lo == frame.zoomed.x.start
           hi == frame.zoomed.x.end
           first == (lo.n * frame.increment.d) \div (lo.d * frame.increment.n) - 1
           last == (hi.n * frame.increment.d) \div (hi.d * frame.increment.n) + 1
           multiple(i) == Rat(i * frame.increment.n, frame.increment.d)
       IN  /\ \A i \in first..last :
                  (RLt(lo, multiple(i)) /\ RLt(multiple(i), hi))
                      => Cardinality({ j \in 1..Len(frame.x_ticks) :
                                          frame.x_ticks[j] = multiple(i) }) = 1
           /\ \A j \in 1..Len(frame.x_ticks) : RLe(lo, frame.x_ticks[j])

\* The positions in the frame's call sequence of the calls issued by part by.
CallsBy(by) == { k \in 1..Len(frame.calls) : frame.calls[k].by = by }

\* The calls the frame draws outside the callback before the items: border,
\* title, axis label and both tick walks.
Decoration == CallsBy("border") \cup CallsBy("title") \cup CallsBy("x_label")
                  \cup CallsBy("x_tick") \cup CallsBy("y_tick")

\* C18: within one frame the clip region is set, once, to the plotting
\* rectangle before the callback runs: every paint call of an item submitted
\* through PlotUi::add is issued after the clip is set, the border, title and
\* tick, grid line and label calls are issued before it, and the items are
\* painted at once in submission order: the calls of item j are those of its
\* paint under the frame's transform, ahead of those of every later item.
C18_ClipBeforeItems ==
    frame.present
    => /\ Cardinality(CallsBy("set_clip_rect")) = 1
       /\ \A c \in CallsBy("set_clip_rect") :
              /\ frame.calls[c].shape.pts = <<frame.painter_rect.min, frame.painter_rect.max>>
              /\ \A k \in CallsBy("add") : c < k
              /\ \A k \in Decoration : k < c
       /\ \A k, l \in CallsBy("add") :
              k < l => frame.calls[k].index <= frame.calls[l].index
       /\ \A j \in 1..Len(frame.input.contents) :
              LET OfItem(c) == c.by = "add" /\ c.index = j
                  issued == SelectSeq(frame.calls, OfItem)
              IN  [k \in 1..Len(issued) |-> issued[k].shape]
                      = paint(frame.input.contents[j], frame.zoomed.x, frame.zoomed.y,
                              frame.painter_rect).calls

\* C18 witness: a titled frame with ticks on both axes whose callback has
\* submitted two items, both of which have issued paint calls.
C18_Witness ==
    /\ frame.present
    /\ CallsBy("title") # {}
    /\ CallsBy("x_tick") # {}
    /\ CallsBy("y_tick") # {}
    /\ Len(frame.input.contents) = 2
    /\ \E k, l \in CallsBy("add") :
           frame.calls[k].index = 1 /\ frame.calls[l].index = 2

\* The pointer is pressed on the plot in frame f.
Pressed(f) == f.present /\ f.input.down /\ f.input.pointer.some

\* C22: drag memory: after every frame last_drag_pos is the pressed pointer
\* position of that frame, or None when no press is active; a frame
\* translates the ranges only if the pointer is pressed in that frame and
\* was pressed in the frame before it, and the first frame of a drag
\* performs no translation.
C22_DragMemory ==
    [][ShowStep
       => /\ memory'[frame'.label].last_drag_pos
                 = (IF Pressed(frame') THEN frame'.input.pointer ELSE None)
          /\ (\/ frame'.dragged.x # frame'.locked.x
              \/ frame'.dragged.y # frame'.locked.y)
                 => Pressed(frame') /\ Pressed(frame)
          /\ (Pressed(frame') /\ ~Pressed(frame))
                 => /\ frame'.dragged.x = frame'.locked.x
                    /\ frame'.dragged.y = frame'.locked.y]_vars

\* C22 witness: the second frame of a plot is the first frame of a drag,
\* after a frame without a press: nothing was remembered, the position of
\* the press is, and the ranges are not translated.
C22_Witness ==
    /\ Pressed(frame)
    /\ nframes[frame.label] = 2
    /\ ~frame.last_drag_pos.some
    /\ memory[frame.label].last_drag_pos = frame.input.pointer
    /\ frame.dragged.x = frame.locked.x

\* The axis ranges of the program: those of the builder, of every PlotMemory
\* entry, and those the last frame has computed and applied its transforms
\* with.
ReachableRanges ==
    { plt.x_axis.range, plt.y_axis.range }
        \cup UNION { { memory[l].x_axis_range, memory[l].y_axis_range } :
                         l \in { l \in Labels : memory[l].present } }
        \cup (IF frame.present
              THEN { frame.start.x, frame.start.y, frame.locked.x, frame.locked.y,
                     frame.dragged.x, frame.dragged.y, frame.zoomed.x, frame.zoomed.y }
              ELSE {})

\* C27: every AxisRange reachable through PlotCtx::plot, the builder methods
\* and any sequence of show calls has Linear scaling, so pixel_to_axis and
\* axis_to_pixel never take their Logarithmic arms.
C27_OnlyLinearScaling ==
    \A range \in ReachableRanges : range.scaling = "Linear"

\* C27 witness: a plot with builder ranges set has been shown, and a later
\* frame of it has dragged the ranges, which applies pixel_to_axis.
C27_Witness ==
    /\ FrameDragged
    /\ frame.start.x.scaling = "Linear"
    /\ frame.zoomed.y.scaling = "Linear"
    /\ frame.dragged.x # frame.locked.x

\* C24: range validity: from the default PlotMemory on, after any sequence
\* of frames (drags, scroll deltas, pointer positions) in panels whose
\* plotting rectangle has positive width and height, both persisted axis
\* ranges of every plot satisfy end > start, and so do the ranges every
\* frame has at its persist step.
C24_RangesValid ==
    /\ \A l \in Labels :
           memory[l].present
           => /\ RLt(memory[l].x_axis_range.start, memory[l].x_axis_range.end)
              /\ RLt(memory[l].y_axis_range.start, memory[l].y_axis_range.end)
    /\ frame.present
           => /\ RLt(frame.memory.x_axis_range.start, frame.memory.x_axis_range.end)
              /\ RLt(frame.memory.y_axis_range.start, frame.memory.y_axis_range.end)

\* C24 witness: the second frame of a plot has persisted ranges that a zoom
\* has made narrower than the default extent of 20, in a plotting rectangle
\* of positive size.
C24_Witness ==
    /\ frame.present
    /\ nframes[frame.label] = 2
    /\ RLt(R(0), width(frame.painter_rect))
    /\ RLt(R(0), height(frame.painter_rect))
    /\ frame.zoomed.x # frame.dragged.x
    /\ memory[frame.label].x_axis_range = frame.zoomed.x
    /\ RLt(extent(memory[frame.label].x_axis_range), R(20))
    /\ RLt(R(0), extent(memory[frame.label].y_axis_range))

NoInput(f) == f.present /\ ~f.input.down /\ f.input.scroll = R(0)

\* C23: no drift without input: a frame without pressed pointer and without
\* scroll, shown on a PlotMemory that has been through one such frame with
\* the same plotting rectangle, leaves both persisted axis ranges as they
\* are, for all starting ranges with end > start.
C23_NoDriftWithoutInput ==
    [][(/\ ShowStep
        /\ NoInput(frame) /\ NoInput(frame')
        /\ frame'.label = frame.label
        /\ frame'.painter_rect = frame.painter_rect
        /\ RLt(frame.start.x.start, frame.start.x.end)
        /\ RLt(frame.start.y.start, frame.start.y.end))
       => /\ memory'[frame'.label].x_axis_range = memory[frame.label].x_axis_range
          /\ memory'[frame'.label].y_axis_range = memory[frame.label].y_axis_range]_vars

(***************************************************************************)
(* Properties of the plot items, checked under SpecItems                   *)
(***************************************************************************)
\* C14: Scatter::stems with a Series whose length differs from the point
\* count (3 points, a series of 2) fails its assertion before any paint
\* call is issued: the program ends there, the stems are not set and
\* nothing is painted; and no paint of a Scatter fails on the look-up of a
\* point's reference value.
C14_StemsPrecondition ==
    [][/\ (/\ itemcall'.op = "Scatter::stems"
           /\ itemcall'.reference.kind = "Series"
           /\ Len(itemcall'.reference.series) # Len(item.points))
              => (aborted' /\ item' = item /\ painted' = painted)
       /\ (itemcall'.op = "PlotUi::add" /\ item.kind = "Scatter")
              => (~painted'.panicked /\ ~aborted')]_vars

\* Scatter::stems has been called on a Scatter of 3 points with a series of
\* length 2, and the program has ended with nothing painted.
C14_Witness ==
    /\ itemcall.op = "Scatter::stems"
    /\ item.kind = "Scatter"
    /\ Len(item.points) = 3
    /\ itemcall.reference.kind = "Series"
    /\ Len(itemcall.reference.series) = 2
    /\ aborted
    /\ painted.calls = << >>

\* C15: painting a Line whose Series area-fill reference is shorter than
\* its point list fails with an index out of bounds, for every point count
\* and every shorter series length.
C15_ShortAreaFillPanics ==
    (/\ painted.item.kind = "Line"
     /\ painted.item.area_fill.some
     /\ painted.item.area_fill.reference.kind = "Series"
     /\ Len(painted.item.area_fill.reference.series) < Len(painted.item.points))
    => painted.panicked

\* The transform PlotUi::add hands to the painted item.
Transformed(p) ==
    plot_to_pixels(p, Axis_default.range, Axis_default.range, layout(SquareRect, FALSE, ""))

\* The reference value of a YReference under point i (from 1).
ReferenceBelow(reference, i) ==
    IF reference.kind = "Constant" THEN reference.c ELSE reference.series[i]

\* The reference has a value for each of n points.
CoversPoints(reference, n) == reference.kind = "Series" => Len(reference.series) >= n

\* Two vertex lists bound the same polygon: one is the other, or its
\* reverse, read from some vertex on.
SamePolygon(a, b) ==
    /\ Len(a) = Len(b)
    /\ \E r \in 0..(Len(a) - 1) :
           \/ \A k \in 1..Len(a) : b[k] = a[((k - 1 + r) % Len(a)) + 1]
           \/ \A k \in 1..Len(a) : b[k] = a[((r + Len(a) - k) % Len(a)) + 1]

\* C25: a painted Line of n points with an area-fill reference that has a
\* value for every point issues exactly max(n - 1, 0) filled quadrilaterals,
\* the i-th bounded by point[i], point[i+1], the reference point below i+1
\* and the reference point below i, all before one polyline call through
\* the n transformed points; without an area-fill reference it issues the
\* polyline call only.
C25_LineFillThenStroke ==
    (/\ painted.item.kind = "Line"
     /\ painted.item.area_fill.some
            => CoversPoints(painted.item.area_fill.reference, Len(painted.item.points)))
    => LET points == painted.item.points
           n == Len(points)
           quads == IF painted.item.area_fill.some /\ n > 0 THEN n - 1 ELSE 0
           reference == painted.item.area_fill.reference
       IN  /\ ~painted.panicked
           /\ Len(painted.calls) = quads + 1
           /\ \A i \in 1..quads :
                  /\ painted.calls[i].op = "polygon"
                  /\ SamePolygon(painted.calls[i].pts,
                                 << Transformed(points[i]),
                                    Transformed(points[i + 1]),
                                    Transformed(Pos(points[i + 1].x, ReferenceBelow(reference, i + 1))),
                                    Transformed(Pos(points[i].x, ReferenceBelow(reference, i))) >>)
           /\ painted.calls[quads + 1]
                  = Shape("line", [k \in 1..n |-> Transformed(points[k])])

\* C25 witness: a Line of three points with a Series area fill has been
\* painted: two quadrilaterals and the polyline.
C25_Witness ==
    /\ painted.item.kind = "Line"
    /\ painted.item.area_fill.some
    /\ painted.item.area_fill.reference.kind = "Series"
    /\ Len(painted.item.points) = 3
    /\ Len(painted.calls) = 3
    /\ ~painted.panicked

\* The number of painter calls of one marker.
MarkerCalls(shape) ==
    CASE shape \in { "Circle", "Square", "Triangle" } -> 1
      [] shape \in { "Plus", "X" } -> 2
      [] shape = "Star" -> 4

\* C26: a painted Scatter paints its points in index order; with stems set,
\* the stem segment of a point, from the transformed reference point at the
\* point's x to the transformed point, is issued immediately before the
\* marker calls of that point; with stems unset no stem segment is issued.
C26_ScatterStemBeforeMarker ==
    (/\ painted.item.kind = "Scatter"
     /\ ~painted.panicked)
    => LET points == painted.item.points
           stems == painted.item.stems
           lead == IF stems.some THEN 1 ELSE 0
           stride == lead + MarkerCalls(painted.item.shape)
       IN  /\ Len(painted.calls) = Len(points) * stride
           /\ \A i \in 1..Len(points) :
                  /\ stems.some
                         => painted.calls[(i - 1) * stride + 1]
                                = Shape("line_segment",
                                        << Transformed(Pos(points[i].x,
                                                           ReferenceBelow(stems.reference, i))),
                                           Transformed(points[i]) >>)
                  /\ \A k \in (lead + 1)..stride :
                         /\ painted.calls[(i - 1) * stride + k].pts = << Transformed(points[i]) >>
                         /\ painted.calls[(i - 1) * stride + k].op
                                = marker(painted.item.shape, Transformed(points[i]))[k - lead].op

\* C26 witness: a Scatter of three points with Plus markers and a Series of
\* stems has been painted, three calls per point.
C26_Witness ==
    /\ painted.item.kind = "Scatter"
    /\ painted.item.stems.some
    /\ painted.item.stems.reference.kind = "Series"
    /\ painted.item.shape = "Plus"
    /\ Len(painted.item.points) = 3
    /\ Len(painted.calls) = 9

====
